---- MODULE Spec2Model ----
(***************************************************************************)
(* Model of the GHTorrent dump loader (src/loader/loader.py and its        *)
(* sequential predecessor src/downloaders/dumps_downloader.py).            *)
(*                                                                         *)
(* Strings are sequences of tokens, so that basename, endswith and         *)
(* replace are computed, not assumed.  The local filesystem is a function  *)
(* from paths to nodes, so that two pipelines that derive the same path    *)
(* really share the file.  Archive contents are sequences of bytes.        *)
(***************************************************************************)
EXTENDS Integers, Sequences, FiniteSets, TLC

\* ------------------------------------------------------------------ bounds
\* Length of the list handed to process_archives.
NumArchives == 3
\* Number of worker processes of the pool.  The source creates the pool with
\* processes=8; the model keeps the pool smaller than the list so that
\* descriptors do wait for a free worker.
PoolSize == 2

\* ------------------------------------------------------------- strings
TARGZ == ".tar.gz"

\* The tokens that end in a path separator.
Seps == {"/", "old/", "http://ghtorrent-downloads.ewi.tudelft.nl/mongo-daily/"}

url == <<"http://ghtorrent-downloads.ewi.tudelft.nl/mongo-daily/">>

target_dir == <<"target_dir">>

\* str.endswith("tar.gz")
endswith_targz(s) == Len(s) > 0 /\ s[Len(s)] = TARGZ

\* os.path.basename: whatever follows the last separator.
basename(p) ==
    LET seps == {i \in 1..Len(p) : p[i] \in Seps}
        last == IF seps = {} THEN 0 ELSE CHOOSE i \in seps : \A j \in seps : j <= i
    IN  SubSeq(p, last + 1, Len(p))

\* str.replace(".tar.gz", ""): every occurrence is removed.
replace_targz(s) == SelectSeq(s, LAMBDA t : t # TARGZ)

\* os.path.join(a, b)
join(a, b) == a \o <<"/">> \o b

\* process_archive: the archive is downloaded to target_dir/<basename>.
target_loc(link) == join(target_dir, basename(link))

\* process_archive: the extraction root is the archive name without ".tar.gz".
unique_dump_dir(link) == join(target_dir, replace_targz(basename(link)))

\* ------------------------------------------------- the remote host
\* The dated dumps the host serves; each href is "mongo-dump-<date>.tar.gz".
Dates == <<"2020-01-01", "2020-01-02", "2020-01-03", "2020-01-04", "2020-01-05">>

\* extract_archive_links: each link is url + href.
Link(d) == url \o <<"mongo-dump-", Dates[d], TARGZ>>

\* The same file name reachable under another directory of the host.
OldLink(d) == url \o <<"old/", "mongo-dump-", Dates[d], TARGZ>>

CatalogueLinks == {Link(d) : d \in 1..Len(Dates)} \cup {OldLink(1)}

DateOf(link) == CHOOSE d \in 1..Len(Dates) : link[Len(link) - 1] = Dates[d]

\* The bytes of the resource behind a link: distinct resources have distinct
\* bytes, and the bytes of one resource are pairwise distinct.
RemoteData(link) ==
    LET base == 10 * DateOf(link) + (IF "old/" \in {link[i] : i \in 1..Len(link)} THEN 100 ELSE 0)
    IN  <<base + 1, base + 2>>

File(name) == [dir |-> "dump/github", name |-> name, kind |-> "file"]

\* The dump of the last date was made of another database: it is a sound
\* archive with no dump/github directory in it.
NoGithub(link) == DateOf(link) = Len(Dates)

\* The members of the archive behind a link, in archive order.
ArchiveMembers(link) ==
    IF NoGithub(link) THEN <<[dir |-> "dump/admin", name |-> "system.bson", kind |-> "file"]>>
    ELSE <<File("issues.bson"), File("users.bson")>>

\* The dump of the second date is cut short on the host: its byte stream ends
\* before the end-of-archive marker.
Truncated(link) == DateOf(link) = 2

\* ------------------------------------------------- the local filesystem
Absent == [kind |-> "absent", data |-> <<>>, entries |-> {}, root |-> <<>>]

RegularFile(data) == [kind |-> "file", data |-> data, entries |-> {}, root |-> <<>>]

Directory(entries) == [kind |-> "dir", data |-> <<>>, entries |-> entries, root |-> <<>>]

\* The bytes tarfile.open(..., "w:gz") writes; which members they hold is kept
\* in the node (entries, with the directory prefix tar.add gave them in root).
LocalTarData == <<0>>

TarFile(entries, root) == [kind |-> "file", data |-> LocalTarData, entries |-> entries, root |-> root]

\* The paths process_archive derives from a list of links.
PathsOf(links) ==
    {target_loc(links[i]) : i \in 1..Len(links)} \cup {unique_dump_dir(links[i]) : i \in 1..Len(links)}

\* ------------------------------------------------- the HTTP exchange
chunk_size == 1024

\* The three kinds of host: one that honours Range and answers an
\* unsatisfiable range with an error page, one that honours Range and answers
\* an unsatisfiable range with an empty body, one that ignores Range.
Servers == {"range", "range_empty", "ignore"}

\* The body of a 416 answer.
ErrorBody == <<-1>>

\* os.path.exists / os.path.getsize
first_byte_of(node) == IF node.kind = "absent" THEN 0 ELSE Len(node.data)

\* header = {"Range": "bytes=%s-%s" % (first_byte, file_size)}
range_header(first_byte, file_size) == [first |-> first_byte, last |-> file_size]

Min(a, b) == IF a <= b THEN a ELSE b

\* requests.get(file_url, headers=header).status_code
response_status(remote, header, srv) ==
    IF srv = "ignore" THEN 200
    ELSE IF header.first < Len(remote) /\ header.first <= header.last THEN 206
    ELSE 416

\* requests.get(file_url, headers=header, stream=True): the body.  Byte
\* positions of a range count from 0 and the last position is inclusive; a
\* last position beyond the end is cut to the end.
response_body(remote, header, srv) ==
    CASE response_status(remote, header, srv) = 200 -> remote
      [] response_status(remote, header, srv) = 206 ->
            SubSeq(remote, header.first + 1, Min(header.last + 1, Len(remote)))
      [] OTHER -> IF srv = "range" THEN ErrorBody ELSE <<>>

\* req.iter_content(chunk_size=1024): the next chunk of a stream.
next_chunk(stream) == SubSeq(stream, 1, Min(chunk_size, Len(stream)))

rest_of(stream) == SubSeq(stream, Min(chunk_size, Len(stream)) + 1, Len(stream))

\* open(target_loc, "ab") followed by f.write(chunk): the file is created
\* when absent, and the chunk goes after whatever it holds.
append(node, chunk) ==
    IF node.kind = "absent" THEN RegularFile(chunk)
    ELSE [node EXCEPT !.data = node.data \o chunk]

\* The whole loop "for chunk in req.iter_content(...): f.write(chunk)".
RECURSIVE write_chunks(_, _)
write_chunks(node, stream) ==
    IF stream = <<>> THEN append(node, <<>>)
    ELSE write_chunks(append(node, next_chunk(stream)), rest_of(stream))

\* ------------------------------------------------- archives on disk
\* What tarfile finds in a local file: the members of the resource it is a
\* complete copy of, the members tar_directory wrote into it, or neither.
RECURSIVE SetToSeq(_)
SetToSeq(S) == IF S = {} THEN <<>>
               ELSE LET x == CHOOSE y \in S : TRUE IN <<x>> \o SetToSeq(S \ {x})

tar_read(node) ==
    IF \E l \in CatalogueLinks : node.data = RemoteData(l)
    THEN LET l == CHOOSE k \in CatalogueLinks : node.data = RemoteData(k)
         IN  [readable |-> TRUE, members |-> ArchiveMembers(l), truncated |-> Truncated(l)]
    ELSE IF node.data = LocalTarData
    THEN [readable |-> TRUE, members |-> SetToSeq(node.entries), truncated |-> FALSE]
    ELSE [readable |-> FALSE, members |-> <<>>, truncated |-> TRUE]

NoTar == [readable |-> FALSE, members |-> <<>>, truncated |-> FALSE]

\* A variant of the default: untar keeps the archive unless told otherwise.
untar_keeps_tarfile == FALSE

\* untar(tarfile_path, target_directory, remove_tarfile=True): the default
\* process_archive relies on.
untar_remove_tarfile == TRUE

\* tar_directory(dir_path, tarfile_path, remove_directory=True)
tar_remove_directory == TRUE

\* ------------------------------------------------- remove_excess_files
issue_related_files == {"issues.bson", "issue_comments.bson"}

\* A variant of the loop whose test is inverted: it removes the allow-listed
\* files and keeps the others.
RECURSIVE remove_loop_inverted(_, _)
remove_loop_inverted(listing, entries) ==
    IF listing = <<>> THEN [entries |-> entries, raised |-> FALSE]
    ELSE LET e == Head(listing) IN
         IF e.name \in issue_related_files
         THEN IF e.kind = "dir" THEN [entries |-> entries, raised |-> TRUE]
              ELSE remove_loop_inverted(Tail(listing), entries \ {e})
         ELSE remove_loop_inverted(Tail(listing), entries)

\* A variant of the loop that stops after the first entry it removes.
RECURSIVE remove_loop_stops_early(_, _)
remove_loop_stops_early(listing, entries) ==
    IF listing = <<>> THEN [entries |-> entries, raised |-> FALSE]
    ELSE LET e == Head(listing) IN
         IF e.name \notin issue_related_files
         THEN IF e.kind = "dir" THEN [entries |-> entries, raised |-> TRUE]
              ELSE [entries |-> entries \ {e}, raised |-> FALSE]
         ELSE remove_loop_stops_early(Tail(listing), entries)

\* The loop of remove_excess_files over the listing os.listdir returned:
\* os.remove deletes a file and raises on a directory, which ends the loop.
RECURSIVE remove_loop(_, _)
remove_loop(listing, entries) ==
    IF listing = <<>> THEN [entries |-> entries, raised |-> FALSE]
    ELSE LET e == Head(listing) IN
         IF e.name \notin issue_related_files
         THEN IF e.kind = "dir" THEN [entries |-> entries, raised |-> TRUE]
              ELSE remove_loop(Tail(listing), entries \ {e})
         ELSE remove_loop(Tail(listing), entries)

\* The orders in which os.listdir may return a set of entries.
Listings(S) == {q \in [1..Cardinality(S) -> S] : \A i, j \in 1..Cardinality(S) : q[i] = q[j] => i = j}

\* ------------------------------------------------- state of a run
VARIABLES
    archive_links,  \* process_archives: the list of links it was given
    fs,             \* the local filesystem: path -> node
    pc,             \* per descriptor: where its process_archive call stands
    body,           \* per descriptor: the response body not yet written
    tar,            \* per descriptor: the archive untar has opened
    extracted,      \* per descriptor: members extracted so far
    failed_at,      \* per descriptor: the stage at which it failed
    raised,         \* per descriptor: TRUE when the worker raised an exception
    parent,         \* process_archives: "imap", "returned" or "raised"
    p_bar,          \* the "process archives" bar: results consumed so far
    alive,          \* FALSE once the main process has exited
    is_successful_untar,  \* per descriptor: what untar returned ("unset" before)
    run,            \* the number of this run over the same target directory
    \* one call of download_file_from_url, byte by byte
    dl_remote,      \* the bytes of the remote resource
    dl_initial,     \* the local file when the call began
    dl_file,        \* the local file
    dl_pc,          \* "start", "streaming", "closed" or "raised"
    dl_header,      \* the Range header that was sent
    dl_status,      \* the status of the answer
    dl_stream,      \* the part of the body not yet read
    dl_read,        \* body bytes read from the network so far
    dl_p_bar,       \* the download bar: p_bar.n
    \* calls of remove_excess_files on one directory
    pr_before,      \* the entries of the directory before the last call
    pr_dir,         \* the entries of the directory
    pr_calls,       \* calls made so far
    pr_raised,      \* TRUE when the last call raised
    \* one call of extract_archive_links, and what main does with its result
    hrefs,          \* the href of every anchor of the listing page, in page order
    start_date,     \* --start-date
    end_date,       \* --end-date
    ex_pc,          \* "loop", "returned", "raised" or "scheduled"
    ex_next,        \* the position in hrefs the loop is at
    ex_calls,       \* the calls of is_between_dates made so far, with their outcome
    ex_raised,      \* the exception that ended the call ("none" when there is none)
    tar_files_links, \* the list the loop builds
    \* one call of tar_directory, and the extraction of what it wrote
    td_path,        \* dir_path
    td_before,      \* the entries under dir_path when the call began
    td_dir,         \* the entries under dir_path
    td_archive,     \* the members of the archive at tarfile_path
    td_out,         \* the files under the directory the archive was extracted into
    td_pc,          \* "start", "written", "returned", "raised" or "extracted"
    td_remove_directory, \* the argument remove_directory
    \* one call of process_restore (src/landscape/mongo_restorer/restorer.py)
    rt_listing,     \* what os.listdir(tar_dir_path) returns
    rt_start,       \* start_date
    rt_end,         \* end_date
    remove_untar_files,  \* the argument remove_untar_files
    tar_dumps,      \* the filtered list the loop runs over
    rt_pc,          \* "filter", "untar", "restore", "cleanup" or "returned"
    rt_next,        \* the position in tar_dumps the loop is at
    rt_untarred,    \* per dump: whether tar ended well ("unset" before)
    is_successful_restore,  \* per dump: what restore_issue_bson_to_mongo returned
    rt_dirs         \* the extracted dump directories that exist

run_vars == <<archive_links, fs, pc, body, tar, extracted, failed_at, raised, parent, p_bar,
              alive, is_successful_untar, run>>

dl_vars == <<dl_remote, dl_initial, dl_file, dl_pc, dl_header, dl_status, dl_stream, dl_read,
             dl_p_bar>>

pr_vars == <<pr_before, pr_dir, pr_calls, pr_raised>>

ex_vars == <<hrefs, start_date, end_date, ex_pc, ex_next, ex_calls, ex_raised, tar_files_links>>

td_vars == <<td_path, td_before, td_dir, td_archive, td_out, td_pc, td_remove_directory>>

rt_vars == <<rt_listing, rt_start, rt_end, remove_untar_files, tar_dumps, rt_pc, rt_next, rt_untarred,
             is_successful_restore, rt_dirs>>

vars == <<run_vars, dl_vars, pr_vars, ex_vars, td_vars, rt_vars>>

Tasks == 1..Len(archive_links)

ActivePcs == {"request", "write", "open", "extract", "prune", "tar", "rmtree"}

Active(i) == pc[i] \in ActivePcs

Terminal(i) == pc[i] \in {"done", "failed", "skipped"}

\* The stage of the per-descriptor state machine a code position belongs to.
Stage(i) ==
    CASE pc[i] = "pending" -> "Pending"
      [] pc[i] \in {"request", "write"} -> "Downloading"
      [] pc[i] \in {"open", "extract"} -> "Extracting"
      [] pc[i] = "prune" -> "Pruning"
      [] pc[i] \in {"tar", "rmtree"} -> "Repackaging"
      [] pc[i] \in {"done", "skipped"} -> "Done"
      [] OTHER -> "Failed"

\* The lists process_archives is run on: the first dumps of the host, one
\* listing that names a dump twice, one that names it under two directories,
\* one link that is no archive, and one listing whose first dump has no
\* dump/github directory.
Inputs ==
    {[i \in 1..n |-> Link(i)] : n \in 0..NumArchives}
        \cup {<<Link(1), Link(1)>>, <<Link(1), OldLink(1)>>, <<url \o <<"index.html">>>>,
              <<Link(Len(Dates)), Link(1)>>}

\* No download_file_from_url call of its own is under way.
DlIdle ==
    /\ dl_remote = <<>>
    /\ dl_initial = Absent
    /\ dl_file = Absent
    /\ dl_pc = "idle"
    /\ dl_header = range_header(0, 0)
    /\ dl_status = 0
    /\ dl_stream = <<>>
    /\ dl_read = 0
    /\ dl_p_bar = 0

\* No remove_excess_files call of its own is under way.
PrIdle ==
    /\ pr_before = {}
    /\ pr_dir = {}
    /\ pr_calls = 0
    /\ pr_raised = FALSE

\* No extract_archive_links call of its own is under way.
ExIdle ==
    /\ hrefs = <<>>
    /\ start_date = <<>>
    /\ end_date = <<>>
    /\ ex_pc = "idle"
    /\ ex_next = 0
    /\ ex_calls = <<>>
    /\ ex_raised = "none"
    /\ tar_files_links = <<>>

\* No tar_directory call of its own is under way.
TdIdle ==
    /\ td_path = <<>>
    /\ td_before = {}
    /\ td_dir = {}
    /\ td_archive = {}
    /\ td_out = {}
    /\ td_pc = "idle"
    /\ td_remove_directory = tar_remove_directory

\* No process_restore call is under way.
RtIdle ==
    /\ rt_listing = <<>>
    /\ rt_start = <<>>
    /\ rt_end = <<>>
    /\ remove_untar_files = FALSE
    /\ tar_dumps = <<>>
    /\ rt_pc = "idle"
    /\ rt_next = 0
    /\ rt_untarred = <<>>
    /\ is_successful_restore = <<>>
    /\ rt_dirs = {}

RunInit ==
    /\ archive_links \in Inputs
    /\ fs = [p \in PathsOf(archive_links) |-> Absent]
    /\ pc = [i \in 1..Len(archive_links) |-> "pending"]
    /\ body = [i \in 1..Len(archive_links) |-> <<>>]
    /\ tar = [i \in 1..Len(archive_links) |-> NoTar]
    /\ extracted = [i \in 1..Len(archive_links) |-> 0]
    /\ failed_at = [i \in 1..Len(archive_links) |-> "none"]
    /\ raised = [i \in 1..Len(archive_links) |-> FALSE]
    /\ parent = "imap"
    /\ p_bar = 0
    /\ alive = TRUE
    /\ is_successful_untar = [i \in 1..Len(archive_links) |-> "unset"]
    /\ run = 1

Init == RunInit /\ DlIdle /\ PrIdle /\ ExIdle /\ TdIdle /\ RtIdle

\* ------------------------------------------------- process_archive
\* A worker's exception, or untar's False: the call ends at this stage.
Fails(i, exception) ==
    /\ pc' = [pc EXCEPT ![i] = "failed"]
    /\ failed_at' = [failed_at EXCEPT ![i] = Stage(i)]
    /\ raised' = [raised EXCEPT ![i] = exception]

Goes(i, to) ==
    /\ pc' = [pc EXCEPT ![i] = to]
    /\ UNCHANGED <<failed_at, raised>>

\* A variant of the pool that starts a worker for every descriptor.
take_task_unbounded(i) ==
    /\ alive
    /\ pc[i] = "pending"
    /\ \A j \in 1..(i - 1) : pc[j] # "pending"
    /\ Goes(i, IF endswith_targz(archive_links[i]) THEN "request" ELSE "skipped")
    /\ UNCHANGED <<dl_vars, pr_vars, ex_vars, td_vars, rt_vars, run, is_successful_untar, archive_links, fs, body, tar, extracted, parent, p_bar, alive>>

\* A variant of the pool in which a worker that finished a descriptor takes no
\* other one.
take_task_never_frees(i) ==
    /\ alive
    /\ pc[i] = "pending"
    /\ \A j \in 1..(i - 1) : pc[j] # "pending"
    /\ Cardinality({j \in Tasks : pc[j] # "pending"}) < PoolSize
    /\ Goes(i, IF endswith_targz(archive_links[i]) THEN "request" ELSE "skipped")
    /\ UNCHANGED <<dl_vars, pr_vars, ex_vars, td_vars, rt_vars, run, is_successful_untar, archive_links, fs, body, tar, extracted, parent, p_bar, alive>>

\* pool.imap hands the descriptors out in list order, each to a free worker;
\* process_archive returns at once for a link that is no archive.
take_task(i) ==
    /\ alive
    /\ pc[i] = "pending"
    /\ \A j \in 1..(i - 1) : pc[j] # "pending"
    /\ Cardinality({j \in Tasks : Active(j)}) < PoolSize
    /\ Goes(i, IF endswith_targz(archive_links[i]) THEN "request" ELSE "skipped")
    /\ UNCHANGED <<dl_vars, pr_vars, ex_vars, td_vars, rt_vars, run, is_successful_untar, archive_links, fs, body, tar, extracted, parent, p_bar, alive>>

\* download_file_from_url up to requests.get: the size of the resource, the
\* size of the local file, and the ranged request.
download_request(i) ==
    /\ alive
    /\ pc[i] = "request"
    /\ LET remote == RemoteData(archive_links[i])
           first_byte == first_byte_of(fs[target_loc(archive_links[i])])
           header == range_header(first_byte, Len(remote))
       IN  \E srv \in Servers :
               body' = [body EXCEPT ![i] = response_body(remote, header, srv)]
    /\ Goes(i, "write")
    /\ UNCHANGED <<dl_vars, pr_vars, ex_vars, td_vars, rt_vars, run, is_successful_untar, archive_links, fs, tar, extracted, parent, p_bar, alive>>

\* A variant of process_archive that goes from the download straight to
\* remove_excess_files.
download_write_skips_untar(i) ==
    /\ alive
    /\ pc[i] = "write"
    /\ fs' = [fs EXCEPT ![target_loc(archive_links[i])] = write_chunks(@, body[i])]
    /\ body' = [body EXCEPT ![i] = <<>>]
    /\ Goes(i, "prune")
    /\ UNCHANGED <<dl_vars, pr_vars, ex_vars, td_vars, rt_vars, run, is_successful_untar, archive_links, tar, extracted, parent, p_bar, alive>>

\* download_file_from_url: the body is appended to the local file.
download_write(i) ==
    /\ alive
    /\ pc[i] = "write"
    /\ fs' = [fs EXCEPT ![target_loc(archive_links[i])] = write_chunks(@, body[i])]
    /\ body' = [body EXCEPT ![i] = <<>>]
    /\ Goes(i, "open")
    /\ UNCHANGED <<dl_vars, pr_vars, ex_vars, td_vars, rt_vars, run, is_successful_untar, archive_links, tar, extracted, parent, p_bar, alive>>

\* A network error: requests raises, before the request is answered or after
\* some whole chunks of the body were written.
download_error(i) ==
    /\ alive
    /\ pc[i] \in {"request", "write"}
    /\ IF pc[i] = "request" THEN fs' = fs
       ELSE \E c \in 0..(Len(body[i]) \div chunk_size) :
               /\ c * chunk_size < Len(body[i]) \/ c = 0
               /\ fs' = [fs EXCEPT ![target_loc(archive_links[i])] =
                            write_chunks(@, SubSeq(body[i], 1, c * chunk_size))]
    /\ body' = [body EXCEPT ![i] = <<>>]
    /\ Fails(i, TRUE)
    /\ UNCHANGED <<dl_vars, pr_vars, ex_vars, td_vars, rt_vars, run, is_successful_untar, archive_links, tar, extracted, parent, p_bar, alive>>

\* untar: os.makedirs(target_directory, exist_ok=True) and tarfile.open.  A
\* missing or unreadable archive makes tarfile.open raise.
untar_open(i) ==
    /\ alive
    /\ pc[i] = "open"
    /\ LET dir == unique_dump_dir(archive_links[i])
           node == fs[target_loc(archive_links[i])]
       IN  /\ fs' = [fs EXCEPT ![dir] = IF @.kind = "absent" THEN Directory({}) ELSE @]
           /\ IF fs[dir].kind # "file" /\ node.kind = "file" /\ tar_read(node).readable
              THEN /\ tar' = [tar EXCEPT ![i] = tar_read(node)]
                   /\ Goes(i, "extract")
              ELSE /\ tar' = tar
                   /\ Fails(i, TRUE)
    /\ extracted' = [extracted EXCEPT ![i] = 0]
    /\ UNCHANGED <<dl_vars, pr_vars, ex_vars, td_vars, rt_vars, run, is_successful_untar, archive_links, body, parent, p_bar, alive>>

\* untar: tar.extract of the next member into the extraction root.
extract_member(i) ==
    /\ alive
    /\ pc[i] = "extract"
    /\ extracted[i] < Len(tar[i].members)
    /\ LET m == tar[i].members[extracted[i] + 1]
       IN  fs' = [fs EXCEPT ![unique_dump_dir(archive_links[i])] =
                     Directory(@.entries \cup {m})]
    /\ extracted' = [extracted EXCEPT ![i] = @ + 1]
    /\ Goes(i, "extract")
    /\ UNCHANGED <<dl_vars, pr_vars, ex_vars, td_vars, rt_vars, run, is_successful_untar, archive_links, body, tar, parent, p_bar, alive>>

\* A variant of the EOFError handler after which process_archive goes on to
\* prune, whatever untar returned.
untar_eof_goes_on(i) ==
    /\ alive
    /\ pc[i] = "extract"
    /\ tar[i].truncated
    /\ is_successful_untar' = [is_successful_untar EXCEPT ![i] = "False"]
    /\ Goes(i, "prune")
    /\ UNCHANGED <<dl_vars, pr_vars, ex_vars, td_vars, rt_vars, run, archive_links, fs, body, tar, extracted, parent, p_bar, alive>>

\* A variant of the EOFError handler that removes the archive before it
\* returns False.
untar_eof_removes_tarfile(i) ==
    /\ alive
    /\ pc[i] = "extract"
    /\ tar[i].truncated
    /\ is_successful_untar' = [is_successful_untar EXCEPT ![i] = "False"]
    /\ fs' = [fs EXCEPT ![target_loc(archive_links[i])] = Absent]
    /\ Fails(i, FALSE)
    /\ UNCHANGED <<dl_vars, pr_vars, ex_vars, td_vars, rt_vars, run, archive_links, body, tar, extracted, parent, p_bar, alive>>

\* untar: "except EOFError: return False".  A truncated archive ends the loop
\* after any number of members; nothing else is done.
untar_eof(i) ==
    /\ alive
    /\ pc[i] = "extract"
    /\ tar[i].truncated
    /\ is_successful_untar' = [is_successful_untar EXCEPT ![i] = "False"]
    /\ Fails(i, FALSE)
    /\ UNCHANGED <<dl_vars, pr_vars, ex_vars, td_vars, rt_vars, run, archive_links, fs, body, tar, extracted, parent, p_bar, alive>>

\* untar: the loop is over; "if remove_tarfile: os.remove(tarfile_path)" and
\* "return True".  os.remove raises when the file is gone.
untar_finish(i) ==
    /\ alive
    /\ pc[i] = "extract"
    /\ ~tar[i].truncated
    /\ extracted[i] = Len(tar[i].members)
    /\ LET path == target_loc(archive_links[i])
           returns == /\ is_successful_untar' = [is_successful_untar EXCEPT ![i] = "True"]
                      /\ Goes(i, "prune")
       IN  IF untar_remove_tarfile
           THEN IF fs[path].kind = "file"
                THEN fs' = [fs EXCEPT ![path] = Absent] /\ returns
                ELSE fs' = fs /\ Fails(i, TRUE) /\ UNCHANGED is_successful_untar
           ELSE fs' = fs /\ returns
    /\ UNCHANGED <<dl_vars, pr_vars, ex_vars, td_vars, rt_vars, run, archive_links, body, tar, extracted, parent, p_bar, alive>>

\* untar: any other error of tar.extract (an I/O error) leaves untar as an
\* exception.
untar_error(i) ==
    /\ alive
    /\ pc[i] = "extract"
    /\ Fails(i, TRUE)
    /\ UNCHANGED <<dl_vars, pr_vars, ex_vars, td_vars, rt_vars, run, is_successful_untar, archive_links, fs, body, tar, extracted, parent, p_bar, alive>>

\* The entries of <extraction root>/dump/github.
github_entries(node) == {e \in node.entries : e.dir = "dump/github"}

\* process_archive: remove_excess_files(<extraction root>/dump/github).
\* os.listdir raises when the directory does not exist.
prune(i) ==
    /\ alive
    /\ pc[i] = "prune"
    /\ LET dir == unique_dump_dir(archive_links[i])
           present == github_entries(fs[dir])
       IN  IF fs[dir].kind # "dir" \/ present = {}
           THEN fs' = fs /\ Fails(i, TRUE)
           ELSE \E listing \in Listings(present) :
                   LET r == remove_loop(listing, present) IN
                   /\ fs' = [fs EXCEPT ![dir] =
                                Directory((@.entries \ present) \cup r.entries)]
                   /\ IF r.raised THEN Fails(i, TRUE) ELSE Goes(i, "tar")
    /\ UNCHANGED <<dl_vars, pr_vars, ex_vars, td_vars, rt_vars, run, is_successful_untar, archive_links, body, tar, extracted, parent, p_bar, alive>>

\* tar_directory: tarfile.open(tarfile_path, "w:gz") replaces whatever is at
\* the path, os.walk adds every regular file under dir_path.
tar_write(i) ==
    /\ alive
    /\ pc[i] = "tar"
    /\ LET dir == unique_dump_dir(archive_links[i])
           files == {e \in fs[dir].entries : e.kind = "file"}
       IN  fs' = [fs EXCEPT ![target_loc(archive_links[i])] = TarFile(files, dir)]
    /\ Goes(i, "rmtree")
    /\ UNCHANGED <<dl_vars, pr_vars, ex_vars, td_vars, rt_vars, run, is_successful_untar, archive_links, body, tar, extracted, parent, p_bar, alive>>

\* tar_directory: an I/O error while the archive is written; the file opened
\* for writing stays, cut short.
tar_error(i) ==
    /\ alive
    /\ pc[i] = "tar"
    /\ fs' = [fs EXCEPT ![target_loc(archive_links[i])] = RegularFile(<<>>)]
    /\ Fails(i, TRUE)
    /\ UNCHANGED <<dl_vars, pr_vars, ex_vars, td_vars, rt_vars, run, is_successful_untar, archive_links, body, tar, extracted, parent, p_bar, alive>>

\* tar_directory: "if remove_directory: os.system('rm -rf %s' % dir_path)";
\* process_archive returns.
remove_directory(i) ==
    /\ alive
    /\ pc[i] = "rmtree"
    /\ fs' = [fs EXCEPT ![unique_dump_dir(archive_links[i])] =
                 IF tar_remove_directory THEN Absent ELSE @]
    /\ Goes(i, "done")
    /\ UNCHANGED <<dl_vars, pr_vars, ex_vars, td_vars, rt_vars, run, is_successful_untar, archive_links, body, tar, extracted, parent, p_bar, alive>>

\* ------------------------------------------------- process_archives
\* The loop over pool.imap: results come in list order; the result of a call
\* that raised is the exception, raised again in the main process.
imap_next ==
    /\ alive
    /\ parent = "imap"
    /\ p_bar < Len(archive_links)
    /\ Terminal(p_bar + 1)
    /\ IF raised[p_bar + 1]
       THEN parent' = "raised" /\ p_bar' = p_bar
       ELSE parent' = parent /\ p_bar' = p_bar + 1
    /\ UNCHANGED <<dl_vars, pr_vars, ex_vars, td_vars, rt_vars, run, is_successful_untar, archive_links, fs, pc, body, tar, extracted, failed_at, raised, alive>>

\* The loop ends when every result was consumed.
process_archives_return ==
    /\ alive
    /\ parent = "imap"
    /\ p_bar = Len(archive_links)
    /\ parent' = "returned"
    /\ UNCHANGED <<dl_vars, pr_vars, ex_vars, td_vars, rt_vars, run, is_successful_untar, archive_links, fs, pc, body, tar, extracted, failed_at, raised, p_bar, alive>>

\* main ends, by return or by the exception: the pool's workers are daemons
\* and end with the main process.
process_exit ==
    /\ alive
    /\ parent \in {"returned", "raised"}
    /\ alive' = FALSE
    /\ UNCHANGED <<dl_vars, pr_vars, ex_vars, td_vars, rt_vars, run, is_successful_untar, archive_links, fs, pc, body, tar, extracted, failed_at, raised, parent, p_bar>>

Next ==
    \/ \E i \in Tasks : take_task(i)
    \/ \E i \in Tasks : download_request(i)
    \/ \E i \in Tasks : download_write(i)
    \/ \E i \in Tasks : download_error(i)
    \/ \E i \in Tasks : untar_open(i)
    \/ \E i \in Tasks : extract_member(i)
    \/ \E i \in Tasks : untar_eof(i)
    \/ \E i \in Tasks : untar_finish(i)
    \/ \E i \in Tasks : untar_error(i)
    \/ \E i \in Tasks : prune(i)
    \/ \E i \in Tasks : tar_write(i)
    \/ \E i \in Tasks : tar_error(i)
    \/ \E i \in Tasks : remove_directory(i)
    \/ imap_next
    \/ process_archives_return
    \/ process_exit

Spec == Init /\ [][Next]_vars

\* ------------------------------------------------- a run without faults
\* The lists of independent descriptors: the first dumps of the host, of which
\* the second is truncated and the others are sound.
IndependentInputs == {[i \in 1..n |-> Link(i)] : n \in 0..NumArchives}

LiveInit == Init /\ archive_links \in IndependentInputs

\* The steps of a run in which nothing fails but the extraction of a
\* truncated archive.
LiveNext ==
    \/ \E i \in Tasks : take_task(i)
    \/ \E i \in Tasks : download_request(i)
    \/ \E i \in Tasks : download_write(i)
    \/ \E i \in Tasks : untar_open(i)
    \/ \E i \in Tasks : extract_member(i)
    \/ \E i \in Tasks : untar_eof(i)
    \/ \E i \in Tasks : untar_finish(i)
    \/ \E i \in Tasks : prune(i)
    \/ \E i \in Tasks : tar_write(i)
    \/ \E i \in Tasks : remove_directory(i)
    \/ imap_next
    \/ process_archives_return
    \/ process_exit

\* Every process of the pool and the main process are scheduled: a step that
\* stays possible is taken.
LiveSpec == LiveInit /\ [][LiveNext]_vars /\ WF_vars(LiveNext)

\* ------------------------------------------------- download_file_from_url
\* Bounds of the resources one call is run on: whole chunks, and bytes beyond
\* the last whole chunk.
MaxChunks == 1
MaxExtra == 1

Sizes == {c * chunk_size + e : c \in 0..MaxChunks, e \in 0..MaxExtra}

\* A resource of n bytes, pairwise distinct.
Resource(n) == [b \in 1..n |-> b]

\* No run of process_archives is under way.
RunIdle ==
    /\ archive_links = <<>>
    /\ fs = [p \in PathsOf(archive_links) |-> Absent]
    /\ pc = <<>>
    /\ body = <<>>
    /\ tar = <<>>
    /\ extracted = <<>>
    /\ failed_at = <<>>
    /\ raised = <<>>
    /\ parent = "idle"
    /\ p_bar = 0
    /\ alive = FALSE
    /\ is_successful_untar = <<>>
    /\ run = 1

\* One call: any resource, and a local file that is absent or holds the first
\* k bytes of the resource (k = 0: empty, k = its size: complete).
DlInit ==
    /\ \E n \in Sizes : dl_remote = Resource(n)
    /\ \/ dl_initial = Absent
       \/ \E k \in Sizes : /\ k <= Len(dl_remote)
                           /\ dl_initial = RegularFile(SubSeq(dl_remote, 1, k))
    /\ dl_file = dl_initial
    /\ dl_pc = "start"
    /\ dl_header = range_header(0, 0)
    /\ dl_status = 0
    /\ dl_stream = <<>>
    /\ dl_read = 0
    /\ dl_p_bar = 0

\* requests.head, os.path.getsize, the tqdm bar, requests.get and
\* open(target_loc, "ab").
dl_request ==
    /\ dl_pc = "start"
    /\ LET file_size == Len(dl_remote)
           first_byte == first_byte_of(dl_file)
           header == range_header(first_byte, file_size)
       IN  /\ dl_header' = header
           /\ dl_p_bar' = first_byte
           /\ \E srv \in Servers :
                 /\ dl_status' = response_status(dl_remote, header, srv)
                 /\ dl_stream' = response_body(dl_remote, header, srv)
    /\ dl_file' = append(dl_file, <<>>)
    /\ dl_pc' = "streaming"
    /\ UNCHANGED <<run_vars, pr_vars, ex_vars, td_vars, rt_vars, dl_remote, dl_initial, dl_read>>

\* One turn of the loop: the next chunk is read, written, and the bar is
\* advanced by 1024.
dl_write_chunk ==
    /\ dl_pc = "streaming"
    /\ dl_stream # <<>>
    /\ dl_file' = append(dl_file, next_chunk(dl_stream))
    /\ dl_read' = dl_read + Len(next_chunk(dl_stream))
    /\ dl_p_bar' = dl_p_bar + chunk_size
    /\ dl_stream' = rest_of(dl_stream)
    /\ UNCHANGED <<run_vars, pr_vars, ex_vars, td_vars, rt_vars, dl_remote, dl_initial, dl_pc, dl_header, dl_status>>

\* The body is exhausted: the file is closed, p_bar.close(), return.
dl_close ==
    /\ dl_pc = "streaming"
    /\ dl_stream = <<>>
    /\ dl_pc' = "closed"
    /\ UNCHANGED <<run_vars, pr_vars, ex_vars, td_vars, rt_vars, dl_remote, dl_initial, dl_file, dl_header, dl_status,
                   dl_stream, dl_read, dl_p_bar>>

\* requests raises (the connection fails): the call ends with the exception,
\* the file keeps the chunks written so far.
dl_error ==
    /\ dl_pc \in {"start", "streaming"}
    /\ dl_pc' = "raised"
    /\ UNCHANGED <<run_vars, pr_vars, ex_vars, td_vars, rt_vars, dl_remote, dl_initial, dl_file, dl_header, dl_status,
                   dl_stream, dl_read, dl_p_bar>>

DlNext == dl_request \/ dl_write_chunk \/ dl_close \/ dl_error

DownloadInit == RunIdle /\ DlInit /\ PrIdle /\ ExIdle /\ TdIdle /\ RtIdle

SpecDownload == DownloadInit /\ [][DlNext]_vars

\* ------------------------------------------------- remove_excess_files alone
\* Bounds: names outside the allow-list, and calls on the same directory.
MaxExcess == 2
MaxCalls == 2

ExcessNames == <<"users.bson", "other.bson", "commits.bson", "repos.bson">>

PrNames == issue_related_files \cup {ExcessNames[k] : k \in 1..MaxExcess}

Entry(name, kind) == [dir |-> "dump/github", name |-> name, kind |-> kind]

\* An existing directory with any entries: each name is absent, a file or a
\* directory.
PrInit ==
    /\ \E shape \in [PrNames -> {"none", "file", "dir"}] :
          pr_dir = {Entry(n, shape[n]) : n \in {m \in PrNames : shape[m] # "none"}}
    /\ pr_before = pr_dir
    /\ pr_calls = 0
    /\ pr_raised = FALSE

\* remove_excess_files(directory): os.listdir in some order, then the loop.
remove_excess_files ==
    /\ pr_calls < MaxCalls
    /\ \E listing \in Listings(pr_dir) :
          LET r == remove_loop(listing, pr_dir) IN
          /\ pr_dir' = r.entries
          /\ pr_raised' = r.raised
    /\ pr_before' = pr_dir
    /\ pr_calls' = pr_calls + 1
    /\ UNCHANGED <<run_vars, dl_vars, ex_vars, td_vars, rt_vars>>

PrNext == remove_excess_files

PruneInit == RunIdle /\ DlIdle /\ PrInit /\ ExIdle /\ TdIdle /\ RtIdle

SpecPrune == PruneInit /\ [][PrNext]_vars

\* ------------------------------------------------- dates in file names
\* A date text is a sequence of tokens: numerals and the "-" between them.
\* int() of a numeral; 0 for a token that is no numeral.
int(t) ==
    CASE t = "2019" -> 2019 [] t = "2020" -> 2020
      [] t = "01" -> 1 [] t = "02" -> 2 [] t = "12" -> 12 [] t = "13" -> 13
      [] t = "1" -> 1 [] t = "5" -> 5 [] t = "15" -> 15
      [] t = "29" -> 29 [] t = "30" -> 30 [] t = "31" -> 31
      [] OTHER -> 0

FourDigits == {"2019", "2020"}

OneOrTwoDigits == {"01", "02", "12", "13", "1", "5", "15", "29", "30", "31"}

IsLeap(y) == (y % 4 = 0 /\ y % 100 # 0) \/ y % 400 = 0

DaysIn(y, m) ==
    IF m = 2 THEN (IF IsLeap(y) THEN 29 ELSE 28)
    ELSE IF m \in {4, 6, 9, 11} THEN 30 ELSE 31

\* datetime.toordinal: the number of the day, counted from 0001-01-01.
RECURSIVE DaysBeforeMonth(_, _)
DaysBeforeMonth(y, m) == IF m = 1 THEN 0 ELSE DaysBeforeMonth(y, m - 1) + DaysIn(y, m - 1)

DaysBeforeYear(y) == (y - 1) * 365 + (y - 1) \div 4 - (y - 1) \div 100 + (y - 1) \div 400

toordinal(d) == DaysBeforeYear(d.year) + DaysBeforeMonth(d.year, d.month) + d.day

ValueError == [ok |-> FALSE, year |-> 0, month |-> 0, day |-> 0]

\* datetime.strptime(text, "%Y-%m-%d"): the whole text must be
\* <4 digits>-<month 1..12>-<day 1..31>, and the day must exist in the month;
\* anything else raises ValueError.
strptime(text) ==
    IF /\ Len(text) = 5
       /\ text[1] \in FourDigits /\ text[2] = "-"
       /\ text[3] \in OneOrTwoDigits /\ text[4] = "-"
       /\ text[5] \in OneOrTwoDigits
       /\ int(text[3]) \in 1..12
       /\ int(text[5]) \in 1..DaysIn(int(text[1]), int(text[3]))
    THEN [ok |-> TRUE, year |-> int(text[1]), month |-> int(text[3]), day |-> int(text[5])]
    ELSE ValueError

\* A variant of the comparison that excludes equal dates.
datetime_lt(a, b) ==
    \/ a.year < b.year
    \/ a.year = b.year /\ a.month < b.month
    \/ a.year = b.year /\ a.month = b.month /\ a.day < b.day

\* datetime.__le__ on two dates without a time of day: year, then month, then day.
datetime_le(a, b) ==
    \/ a.year < b.year
    \/ a.year = b.year /\ a.month < b.month
    \/ a.year = b.year /\ a.month = b.month /\ a.day <= b.day

\* re.search("mongo-dump-(.*).tar.gz", tar_filename): the leftmost
\* "mongo-dump-", then as much as possible up to the last ".tar.gz" after it.
\* group is what (.*) matched; matched is FALSE when search returns None.
re_search(tar_filename) ==
    LET starts == {i \in 1..Len(tar_filename) :
                      /\ tar_filename[i] = "mongo-dump-"
                      /\ \E j \in (i + 1)..Len(tar_filename) : tar_filename[j] = TARGZ}
    IN  IF starts = {} THEN [matched |-> FALSE, group |-> <<>>]
        ELSE LET i == CHOOSE k \in starts : \A l \in starts : k <= l
                 ends == {j \in (i + 1)..Len(tar_filename) : tar_filename[j] = TARGZ}
                 j == CHOOSE k \in ends : \A l \in ends : l <= k
             IN  [matched |-> TRUE, group |-> SubSeq(tar_filename, i + 1, j - 1)]

Returns(value) == [raised |-> "none", value |-> value]

Raises(exception) == [raised |-> exception, value |-> FALSE]

\* is_between_dates(tar_filename, start_date, end_date)
is_between_dates(tar_filename, start, end) ==
    IF ~strptime(start).ok \/ ~strptime(end).ok THEN Raises("ValueError")
    ELSE IF ~re_search(tar_filename).matched THEN Raises("AttributeError")
    ELSE LET tar_date == strptime(re_search(tar_filename).group) IN
         IF ~tar_date.ok THEN Raises("ValueError")
         ELSE Returns(datetime_le(strptime(start), tar_date)
                        /\ datetime_le(tar_date, strptime(end)))

\* ------------------------------------------------- extract_archive_links
\* Bound: anchors on the listing page.
MaxHrefs == 2

Date(y, m, d) == <<y, "-", m, "-", d>>

\* The dates of the dumps a listing may name.
PageDates ==
    {Date("2019", "12", "31"), Date("2020", "01", "01"), Date("2020", "01", "15"),
     Date("2020", "01", "31"), Date("2020", "02", "01")}

\* The href of a dump of the given date.
DumpName(date) == <<"mongo-dump-">> \o date \o <<TARGZ>>

\* What an anchor of the page may point to: a dated dump, the parent
\* directory, an archive that is no dated dump, a dump whose date is no date,
\* and a dump given by its absolute path on the host.
PageHrefs ==
    {DumpName(date) : date \in PageDates}
        \cup {<<"../">>, <<"latest", TARGZ>>, <<"mongo-dump-", "latest", TARGZ>>,
              <<"/", "mongo-daily/">> \o DumpName(Date("2020", "01", "15"))}

\* The values of --start-date and --end-date.
RangeDates == {Date("2020", "01", "01"), Date("2020", "01", "31")}

ExInit ==
    /\ hrefs \in UNION {[1..n -> PageHrefs] : n \in 0..MaxHrefs}
    /\ start_date \in RangeDates
    /\ end_date \in RangeDates
    /\ ex_pc = "loop"
    /\ ex_next = 1
    /\ ex_calls = <<>>
    /\ ex_raised = "none"
    /\ tar_files_links = <<>>

\* One round of "for link in soup.findAll('a', href=True)": the test, and the
\* append when it holds.  An exception of is_between_dates ends the call.
extract_archive_links_step ==
    /\ ex_pc = "loop"
    /\ ex_next <= Len(hrefs)
    /\ LET filename == hrefs[ex_next]
           between == is_between_dates(filename, start_date, end_date)
       IN  IF ~endswith_targz(filename)
           THEN /\ ex_next' = ex_next + 1
                /\ UNCHANGED <<ex_pc, ex_calls, ex_raised, tar_files_links>>
           ELSE /\ ex_calls' = Append(ex_calls, [tar_filename |-> filename, outcome |-> between])
                /\ IF between.raised # "none"
                   THEN /\ ex_pc' = "raised"
                        /\ ex_raised' = between.raised
                        /\ UNCHANGED <<ex_next, tar_files_links>>
                   ELSE /\ ex_next' = ex_next + 1
                        /\ tar_files_links' =
                              IF between.value THEN Append(tar_files_links, url \o filename)
                              ELSE tar_files_links
                        /\ UNCHANGED <<ex_pc, ex_raised>>
    /\ UNCHANGED <<run_vars, dl_vars, pr_vars, td_vars, rt_vars, hrefs, start_date, end_date>>

\* return tar_files_links
extract_archive_links_return ==
    /\ ex_pc = "loop"
    /\ ex_next > Len(hrefs)
    /\ ex_pc' = "returned"
    /\ UNCHANGED <<run_vars, dl_vars, pr_vars, td_vars, rt_vars, hrefs, start_date, end_date, ex_next, ex_calls,
                   ex_raised, tar_files_links>>

\* main: process_archives(archive_links, args.target_dir) on the list that
\* extract_archive_links returned; the pool gets one descriptor per link.
main_process_archives ==
    /\ ex_pc = "returned"
    /\ ex_pc' = "scheduled"
    /\ archive_links' = tar_files_links
    /\ fs' = [p \in PathsOf(tar_files_links) |-> Absent]
    /\ pc' = [i \in 1..Len(tar_files_links) |-> "pending"]
    /\ body' = [i \in 1..Len(tar_files_links) |-> <<>>]
    /\ tar' = [i \in 1..Len(tar_files_links) |-> NoTar]
    /\ extracted' = [i \in 1..Len(tar_files_links) |-> 0]
    /\ failed_at' = [i \in 1..Len(tar_files_links) |-> "none"]
    /\ raised' = [i \in 1..Len(tar_files_links) |-> FALSE]
    /\ is_successful_untar' = [i \in 1..Len(tar_files_links) |-> "unset"]
    /\ parent' = "imap"
    /\ p_bar' = 0
    /\ alive' = TRUE
    /\ UNCHANGED <<dl_vars, pr_vars, td_vars, rt_vars, run, hrefs, start_date, end_date, ex_next, ex_calls, ex_raised,
                   tar_files_links>>

ExNext == extract_archive_links_step \/ extract_archive_links_return \/ main_process_archives

ExtractInit == RunIdle /\ DlIdle /\ PrIdle /\ ExInit /\ TdIdle /\ RtIdle

SpecExtract == ExtractInit /\ [][ExNext]_vars

\* ------------------------------------------------- tar_directory alone
\* An entry below dir_path: a regular file with its bytes, or a directory.
TdFile(dir, name, data) == [dir |-> dir, name |-> name, kind |-> "file", data |-> data]

TdDirectory(dir, name) == [dir |-> dir, name |-> name, kind |-> "dir", data |-> <<>>]

\* The path of an entry relative to dir_path.
relative_path(e) == <<e.dir, "/", e.name>>

\* tarfile: the member name is the path given to tar.add, without leading "/".
lstrip_sep(p) == IF p # <<>> /\ Head(p) = "/" THEN Tail(p) ELSE p

\* The files a tree may hold, each absent or with one of two contents.
TdPlaces == {<<"dump/github", "issues.bson">>, <<"dump/github", "users.bson">>,
             <<"dump/admin", "system.bson">>}

TdContents == {<<1>>, <<2>>}

TdTrees ==
    {{TdFile(pl[1], pl[2], shape[pl]) : pl \in {q \in TdPlaces : shape[q] # <<>>}} \cup extra :
        shape \in [TdPlaces -> TdContents \cup {<<>>}],
        extra \in {{}, {TdDirectory("dump", "empty")}}}

\* dir_path as process_archive gives it, and an absolute one.
TdPaths == {unique_dump_dir(Link(1)), <<"/", "data">>}

TdInit ==
    /\ td_path \in TdPaths
    /\ td_before \in TdTrees
    /\ td_dir = td_before
    /\ td_archive = {}
    /\ td_out = {}
    /\ td_pc = "start"
    /\ td_remove_directory \in BOOLEAN

\* with tarfile.open(tarfile_path, "w:gz") as tar: every file that os.walk
\* finds below dir_path is added under the name os.path.join(root, file).
tar_directory_write ==
    /\ td_pc = "start"
    /\ td_archive' = {[arcname |-> lstrip_sep(join(td_path, relative_path(e))), data |-> e.data] :
                         e \in {f \in td_dir : f.kind = "file"}}
    /\ td_pc' = "written"
    /\ UNCHANGED <<run_vars, dl_vars, pr_vars, ex_vars, rt_vars, td_path, td_before, td_dir, td_out,
                   td_remove_directory>>

\* A variant of the failure in which the directory is removed all the same.
tar_directory_error_removes ==
    /\ td_pc = "start"
    /\ \E added \in SUBSET {f \in td_dir : f.kind = "file"} :
          /\ added # {f \in td_dir : f.kind = "file"}
          /\ td_archive' = {[arcname |-> lstrip_sep(join(td_path, relative_path(e))),
                             data |-> e.data] : e \in added}
    /\ td_dir' = {}
    /\ td_pc' = "raised"
    /\ UNCHANGED <<run_vars, dl_vars, pr_vars, ex_vars, rt_vars, td_path, td_before, td_out,
                   td_remove_directory>>

\* tar.add raises at some file (an I/O error): the archive holds the files
\* added before it, the with block closes it, and the exception leaves
\* tar_directory before the "if remove_directory" line.
tar_directory_error ==
    /\ td_pc = "start"
    /\ \E added \in SUBSET {f \in td_dir : f.kind = "file"} :
          /\ added # {f \in td_dir : f.kind = "file"}
          /\ td_archive' = {[arcname |-> lstrip_sep(join(td_path, relative_path(e))),
                             data |-> e.data] : e \in added}
    /\ td_pc' = "raised"
    /\ UNCHANGED <<run_vars, dl_vars, pr_vars, ex_vars, rt_vars, td_path, td_before, td_dir, td_out,
                   td_remove_directory>>

\* if remove_directory: os.system("rm -rf %s" % dir_path)
tar_directory_remove ==
    /\ td_pc = "written"
    /\ td_dir' = IF td_remove_directory THEN {} ELSE td_dir
    /\ td_pc' = "returned"
    /\ UNCHANGED <<run_vars, dl_vars, pr_vars, ex_vars, rt_vars, td_path, td_before, td_archive, td_out,
                   td_remove_directory>>

\* The archive is extracted into an empty directory: tar.extract puts each
\* member at <directory>/<member name>.
extract_into_empty ==
    /\ td_pc = "returned"
    /\ td_out' = {[path |-> m.arcname, data |-> m.data] : m \in td_archive}
    /\ td_pc' = "extracted"
    /\ UNCHANGED <<run_vars, dl_vars, pr_vars, ex_vars, rt_vars, td_path, td_before, td_dir, td_archive,
                   td_remove_directory>>

TdNext ==
    tar_directory_write \/ tar_directory_error \/ tar_directory_remove \/ extract_into_empty

TarInit == RunIdle /\ DlIdle /\ PrIdle /\ ExIdle /\ TdInit /\ RtIdle

SpecTar == TarInit /\ [][TdNext]_vars

\* ------------------------------------------------- runs one after another
\* Bound: runs over the same target directory.
MaxRuns == 2

\* The first dump of the host alone, and with the truncated second one.
RerunInputs == {<<Link(1)>>, <<Link(1), Link(2)>>}

RerunInit == Init /\ archive_links \in RerunInputs

\* The loader is started again on the same list and target directory, after
\* the previous run ended or was killed at any point: the processes of the
\* previous run are gone, the files are as that run left them.
new_run ==
    /\ run < MaxRuns
    /\ run' = run + 1
    /\ pc' = [i \in Tasks |-> "pending"]
    /\ body' = [i \in Tasks |-> <<>>]
    /\ tar' = [i \in Tasks |-> NoTar]
    /\ extracted' = [i \in Tasks |-> 0]
    /\ failed_at' = [i \in Tasks |-> "none"]
    /\ raised' = [i \in Tasks |-> FALSE]
    /\ is_successful_untar' = [i \in Tasks |-> "unset"]
    /\ parent' = "imap"
    /\ p_bar' = 0
    /\ alive' = TRUE
    /\ UNCHANGED <<dl_vars, pr_vars, ex_vars, td_vars, rt_vars, archive_links, fs>>

RerunNext == Next \/ new_run

SpecRerun == RerunInit /\ [][RerunNext]_vars

\* ------------------------------------------------- process_restore
\* Bound: archives in the dumps directory.
MaxDumps == 2

\* The dated archives the dumps directory may hold.
RestoreNames ==
    {DumpName(Date("2020", "01", "01")), DumpName(Date("2020", "01", "31")),
     DumpName(Date("2020", "02", "01"))}

\* os.listdir: the names of a directory, pairwise distinct, in any order.
RestoreListings ==
    {q \in UNION {[1..n -> RestoreNames] : n \in 0..MaxDumps} :
        \A i, j \in 1..Len(q) : q[i] = q[j] => i = j}

RtInit ==
    /\ rt_listing \in RestoreListings
    /\ rt_start \in RangeDates
    /\ rt_end \in RangeDates
    /\ remove_untar_files \in BOOLEAN
    /\ tar_dumps = <<>>
    /\ rt_pc = "filter"
    /\ rt_next = 0
    /\ rt_untarred = <<>>
    /\ is_successful_restore = <<>>
    /\ rt_dirs = {}

\* tar_dump_name.replace(".tar.gz", "")
untar_dump_name(k) == replace_targz(tar_dumps[k])

\* A variant of the test that looks at remove_untar_files only.
remove_whenever_asked(restored, asked) == asked

\* "if is_successful_restore and remove_untar_files"
remove_after_restore(restored, asked) == restored = "True" /\ asked

\* tar_dumps = os.listdir(...) filtered by is_between_dates; an exception of
\* is_between_dates ends process_restore.
process_restore_filter ==
    /\ rt_pc = "filter"
    /\ LET raises == \E k \in 1..Len(rt_listing) :
                        is_between_dates(rt_listing[k], rt_start, rt_end).raised # "none"
           kept == SelectSeq(rt_listing,
                             LAMBDA name : is_between_dates(name, rt_start, rt_end).value)
       IN  IF raises
           THEN rt_pc' = "raised" /\ UNCHANGED <<tar_dumps, rt_next, rt_untarred, is_successful_restore>>
           ELSE /\ tar_dumps' = kept
                /\ rt_untarred' = [k \in 1..Len(kept) |-> "unset"]
                /\ is_successful_restore' = [k \in 1..Len(kept) |-> "unset"]
                /\ rt_next' = 1
                /\ rt_pc' = "untar"
    /\ UNCHANGED <<run_vars, dl_vars, pr_vars, ex_vars, td_vars, rt_listing, rt_start, rt_end,
                   remove_untar_files, rt_dirs>>

\* untar_file: tar ends well, or with an error that is caught and printed;
\* a tar that failed may have created the directory or not.
untar_file ==
    /\ rt_pc = "untar"
    /\ rt_next <= Len(tar_dumps)
    /\ \E ok, made \in BOOLEAN :
          /\ ok => made
          /\ rt_untarred' = [rt_untarred EXCEPT ![rt_next] = IF ok THEN "ok" ELSE "failed"]
          /\ rt_dirs' = IF made THEN rt_dirs \cup {untar_dump_name(rt_next)} ELSE rt_dirs
    /\ rt_pc' = "restore"
    /\ UNCHANGED <<run_vars, dl_vars, pr_vars, ex_vars, td_vars, rt_listing, rt_start, rt_end,
                   remove_untar_files, tar_dumps, rt_next, is_successful_restore>>

\* restore_issue_bson_to_mongo: True when mongorestore ends well, which needs
\* the extracted directory; False when it ends with an error (printed).
restore_issue_bson_to_mongo ==
    /\ rt_pc = "restore"
    /\ \E ok \in BOOLEAN :
          /\ ok => untar_dump_name(rt_next) \in rt_dirs
          /\ is_successful_restore' =
                [is_successful_restore EXCEPT ![rt_next] = IF ok THEN "True" ELSE "False"]
    /\ rt_pc' = "cleanup"
    /\ UNCHANGED <<run_vars, dl_vars, pr_vars, ex_vars, td_vars, rt_listing, rt_start, rt_end,
                   remove_untar_files, tar_dumps, rt_next, rt_untarred, rt_dirs>>

\* "if is_successful_restore and remove_untar_files: os.system('rm -rf ...')",
\* then the next round of the loop.
restore_cleanup ==
    /\ rt_pc = "cleanup"
    /\ rt_dirs' = IF remove_after_restore(is_successful_restore[rt_next], remove_untar_files)
                  THEN rt_dirs \ {untar_dump_name(rt_next)}
                  ELSE rt_dirs
    /\ rt_next' = rt_next + 1
    /\ rt_pc' = "untar"
    /\ UNCHANGED <<run_vars, dl_vars, pr_vars, ex_vars, td_vars, rt_listing, rt_start, rt_end,
                   remove_untar_files, tar_dumps, rt_untarred, is_successful_restore>>

\* The loop is over.
process_restore_return ==
    /\ rt_pc = "untar"
    /\ rt_next > Len(tar_dumps)
    /\ rt_pc' = "returned"
    /\ UNCHANGED <<run_vars, dl_vars, pr_vars, ex_vars, td_vars, rt_listing, rt_start, rt_end,
                   remove_untar_files, tar_dumps, rt_next, rt_untarred, is_successful_restore,
                   rt_dirs>>

RtNext ==
    \/ process_restore_filter
    \/ untar_file
    \/ restore_issue_bson_to_mongo
    \/ restore_cleanup
    \/ process_restore_return

RestoreInit == RunIdle /\ DlIdle /\ PrIdle /\ ExIdle /\ TdIdle /\ RtInit

\* process_restore is a sequential loop: a step that can be taken is taken.
SpecRestore == RestoreInit /\ [][RtNext]_vars /\ WF_vars(RtNext)

\* ================================================= the claims
Links(i) == archive_links[i]

TouchedPaths(i) == {target_loc(Links(i)), unique_dump_dir(Links(i))}

\* C1: an error raised while a worker processes one descriptor is caught at
\* the worker boundary: it never aborts process_archives, and the main process
\* never ends while a sibling descriptor has not reached Done or Failed.
C1_FailureIsolation ==
    /\ parent # "raised"
    /\ ~alive /\ parent # "idle" => \A i \in Tasks : Terminal(i)

\* C2: a descriptor is in (or past) the Pruner or the Repackager only when its
\* untar went through every member and returned True; a descriptor that failed
\* stays failed: no further stage, no retry.
C2_PruneOnlyAfterSuccessfulUntar ==
    [][\A i \in Tasks :
          /\ pc'[i] \in {"prune", "tar", "rmtree", "done"} =>
                /\ is_successful_untar'[i] = "True"
                /\ ~tar'[i].truncated
                /\ extracted'[i] = Len(tar'[i].members)
          /\ is_successful_untar'[i] = "False" => pc'[i] = "failed"
          /\ pc[i] = "failed" =>
                /\ pc'[i] = "failed"
                /\ failed_at'[i] = failed_at[i]
                /\ is_successful_untar'[i] = is_successful_untar[i]]_vars

\* C2 happens: one descriptor failed at Extracting with untar returning False
\* while another one went through Pruning and Repackaging.
C2_Witness ==
    \E i, j \in Tasks :
        /\ pc[i] = "failed" /\ failed_at[i] = "Extracting"
        /\ is_successful_untar[i] = "False"
        /\ pc[j] = "done"

\* C6: when untar returns False (truncation after m members), that step
\* extracts and deletes nothing, the m members extracted so far are in the
\* extraction root, the archive file is still present, and the call is over;
\* and an untar of a truncated archive never returns True.
C6_TruncatedArchive ==
    [][\A i \in Tasks :
          /\ (is_successful_untar[i] = "unset" /\ is_successful_untar'[i] = "False") =>
                /\ tar[i].truncated
                /\ fs' = fs
                /\ extracted'[i] = extracted[i]
                /\ \A k \in 1..extracted[i] :
                      tar[i].members[k] \in fs'[unique_dump_dir(Links(i))].entries
                /\ fs'[target_loc(Links(i))].kind = "file"
                /\ pc'[i] = "failed" /\ failed_at'[i] = "Extracting" /\ ~raised'[i]
          /\ (tar'[i].truncated /\ pc'[i] # "failed") => is_successful_untar'[i] = "unset"
          /\ pc[i] = "failed" => extracted'[i] = extracted[i]]_vars

\* C6 happens: untar returned False after at least one member was extracted.
C6_Witness ==
    \E i \in Tasks :
        /\ is_successful_untar[i] = "False"
        /\ extracted[i] >= 1
        /\ fs[target_loc(Links(i))].kind = "file"
        /\ fs[unique_dump_dir(Links(i))].entries # {}

\* C7 as stated: in a pipeline run, once untar has returned True the
\* downloaded archive file is still in place (process_archive asked for no
\* cleanup).
C7_ArchiveKeptByPipeline ==
    \A i \in Tasks :
        (pc[i] = "prune" /\ is_successful_untar[i] = "True") =>
            fs[target_loc(Links(i))].kind = "file"

\* C7 as amended: the step on which untar returns True removes the archive
\* file (remove_tarfile defaults to True and process_archive does not pass
\* it), and an archive file disappears on such a step only.
C7_ArchiveRemovedOnSuccess ==
    [][/\ \A i \in Tasks :
             (is_successful_untar[i] = "unset" /\ is_successful_untar'[i] = "True") =>
                 fs'[target_loc(Links(i))].kind = "absent"
       /\ \A p \in DOMAIN fs :
             (fs[p].kind = "file" /\ fs'[p].kind = "absent") =>
                 \E i \in Tasks :
                     /\ p = target_loc(Links(i))
                     /\ is_successful_untar[i] = "unset"
                     /\ is_successful_untar'[i] = "True"]_vars

\* C7 happens: a descriptor is about to be pruned, its members are extracted
\* and its archive is gone.
C7_Witness ==
    \E i \in Tasks :
        /\ pc[i] = "prune"
        /\ fs[target_loc(Links(i))].kind = "absent"
        /\ fs[unique_dump_dir(Links(i))].entries # {}

\* The run is over and each descriptor ended as its archive decides: Failed at
\* Extracting (untar returned False) when truncated, Done otherwise.
RunEndedAsExpected ==
    /\ parent = "returned"
    /\ p_bar = Len(archive_links)
    /\ \A i \in Tasks :
          IF Truncated(Links(i))
          THEN pc[i] = "failed" /\ failed_at[i] = "Extracting" /\ ~raised[i]
          ELSE pc[i] = "done"

\* C8: when the only failures are truncated archives, every run ends: every
\* descriptor reaches a terminal state, process_archives returns, every
\* truncated descriptor is Failed(Extracting) and every other one is Done.
C8_PoolCompletes == <>RunEndedAsExpected

\* C8 happens: a list longer than the pool, with a truncated archive in it,
\* was processed to the end.
C8_Witness ==
    /\ RunEndedAsExpected
    /\ Len(archive_links) > PoolSize
    /\ \E i \in Tasks : Truncated(Links(i))
    /\ Cardinality({i \in Tasks : pc[i] = "done"}) = Len(archive_links) - 1

\* C9: no two pipelines that run at the same time touch the same path.
C9_DisjointPaths ==
    \A i, j \in Tasks :
        (i # j /\ Active(i) /\ Active(j)) => TouchedPaths(i) \cap TouchedPaths(j) = {}

\* The size of the local file when the call began (0 when it was absent).
InitialSize == first_byte_of(dl_initial)

\* C3: when the local file is a strict prefix of the resource, of length k,
\* the request asks for the bytes from offset k to the end, and once the call
\* has returned exactly the missing bytes were read and the local file equals
\* the resource.
C3_ResumeRoundTrip ==
    (dl_pc \in {"streaming", "closed"} /\ InitialSize < Len(dl_remote)) =>
        /\ dl_header.first = InitialSize
        /\ dl_header.last >= Len(dl_remote) - 1
        /\ dl_pc = "closed" =>
              /\ dl_file.kind = "file"
              /\ dl_file.data = dl_remote
              /\ dl_read = Len(dl_remote) - InitialSize

\* C4: when the local file already has the size of the resource, the call
\* reads no body byte from the network and leaves the file as it was.
C4_CompleteFileUntouched ==
    (dl_pc \in {"streaming", "closed"}
        /\ dl_initial.kind = "file" /\ InitialSize = Len(dl_remote)) =>
        /\ dl_read = 0
        /\ dl_file = dl_initial

\* C5: when a non-empty partial local file exists and the host answers the
\* ranged request with the whole resource (status 200), the call fails and
\* appends nothing.
C5_RangeCapabilityCheck ==
    (0 < InitialSize /\ InitialSize < Len(dl_remote) /\ dl_status = 200) =>
        /\ dl_pc = "raised"
        /\ dl_file = dl_initial

AllowListed(S) == {e \in S : e.name \in issue_related_files}

C11_PrunerIdempotent ==
    [][(pr_calls >= 1 /\ ~pr_raised) => (pr_dir' = pr_dir /\ ~pr_raised')]_vars

\* C11 happens: a second call was made on a directory the first call had
\* pruned down to a non-empty allow-listed rest.
C11_Witness ==
    /\ pr_calls = 2
    /\ ~pr_raised
    /\ pr_before = AllowListed(pr_before)
    /\ pr_dir = pr_before
    /\ pr_dir # {}

\* C12: when the extraction root of a descriptor has no dump/github
\* directory, remove_excess_files raises, nothing is deleted, the descriptor
\* ends Failed at Pruning with no repackaged archive, and the other
\* descriptors are not affected: as long as no other descriptor raised,
\* process_archives goes on and the main process does not end before every
\* descriptor is terminal.
C12_MissingDirectory ==
    \A i \in Tasks :
        (Links(i) \in CatalogueLinks /\ NoGithub(Links(i)) /\ Terminal(i)
            /\ is_successful_untar[i] = "True") =>
            /\ pc[i] = "failed" /\ failed_at[i] = "Pruning"
            /\ fs[unique_dump_dir(Links(i))].kind = "dir"
            /\ \A k \in 1..extracted[i] :
                  tar[i].members[k] \in fs[unique_dump_dir(Links(i))].entries
            /\ fs[target_loc(Links(i))].kind = "absent"
            /\ (\A j \in Tasks \ {i} : ~raised[j]) =>
                  /\ parent # "raised"
                  /\ ~alive => \A j \in Tasks : Terminal(j)

\* The date a dump name carries, for the names built from a date.
DatedNames == {DumpName(date) : date \in PageDates}

DateIn(tar_filename) == CHOOSE date \in PageDates : basename(tar_filename) = DumpName(date)

\* start <= d <= end, counted in days.
InDayRange(date) ==
    /\ toordinal(strptime(start_date)) <= toordinal(strptime(date))
    /\ toordinal(strptime(date)) <= toordinal(strptime(end_date))

\* C13: for a file name that carries a date d, and start <= end,
\* is_between_dates returns (it does not raise), and it returns True exactly
\* when start <= d <= end counted in days: d = start and d = end are in, any
\* other d outside the range is out.
C13_DateFilterRange ==
    \A k \in 1..Len(ex_calls) :
        (basename(ex_calls[k].tar_filename) \in DatedNames
            /\ toordinal(strptime(start_date)) <= toordinal(strptime(end_date))) =>
            ex_calls[k].outcome = Returns(InDayRange(DateIn(ex_calls[k].tar_filename)))

\* C13 happens: with start before end, the filter was called on the dump of
\* the start date and on a dump dated the day after the end date; it returned
\* True for the first and False for the second.
C13_Witness ==
    /\ start_date = Date("2020", "01", "01")
    /\ end_date = Date("2020", "01", "31")
    /\ Len(ex_calls) = 2
    /\ ex_calls[1] = [tar_filename |-> DumpName(start_date), outcome |-> Returns(TRUE)]
    /\ ex_calls[2] = [tar_filename |-> DumpName(Date("2020", "02", "01")),
                      outcome |-> Returns(FALSE)]

\* A name that ends in the archive suffix and carries no date.
Malformed(filename) == endswith_targz(filename) /\ basename(filename) \notin DatedNames

\* C14: a listing entry that ends in the archive suffix and carries no date
\* is skipped: extract_archive_links never ends with an exception because of
\* it, and once it has returned, every dated entry of the listing whose date
\* is in the range is in the result.
C14_MalformedSkipped ==
    /\ (ex_pc = "raised") => \A k \in 1..ex_next : ~Malformed(hrefs[k])
    /\ (ex_pc \in {"returned", "scheduled"}) =>
          \A k \in 1..Len(hrefs) :
              (basename(hrefs[k]) \in DatedNames /\ InDayRange(DateIn(hrefs[k]))) =>
                  \E l \in 1..Len(tar_files_links) :
                      basename(tar_files_links[l]) = basename(hrefs[k])

url_root == "http://ghtorrent-downloads.ewi.tudelft.nl"

\* The absolute URL a reference resolves to against the listing URL: a
\* reference that begins with "/" replaces the path of the listing URL, any
\* other one is relative to its directory.
resolved(href) == IF Head(href) = "/" THEN <<url_root>> \o href ELSE url \o href

\* The entries of the listing that are to be returned, in listing order.
Matching ==
    SelectSeq(hrefs, LAMBDA h : endswith_targz(h) /\ basename(h) \in DatedNames
                                  /\ InDayRange(DateIn(h)))

\* C15: extract_archive_links returns, in listing order, exactly the entries
\* that end in the archive suffix and whose date is in the range, each
\* resolved against the listing URL; when no entry matches it returns the
\* empty list and does not raise; and the descriptors of the pool are exactly
\* the returned links.
C15_IndexResolution ==
    /\ (ex_pc \in {"returned", "scheduled"}) =>
          tar_files_links = [k \in 1..Len(Matching) |-> resolved(Matching[k])]
    /\ Matching = <<>> => ex_pc # "raised"
    /\ ex_pc = "scheduled" => archive_links = tar_files_links

\* The exit status of the interpreter once main has ended: 0 when main
\* returned, 1 when it ended with an uncaught exception.
exit_status == IF parent = "raised" THEN 1 ELSE 0

\* C16: when the main process has ended, every descriptor is terminal, one
\* result per descriptor was taken from the pool, and the exit status is zero
\* exactly when every descriptor ended Done.
C16_RunOutcome ==
    (~alive /\ parent # "idle") =>
        /\ \A i \in Tasks : Terminal(i)
        /\ p_bar = Len(archive_links)
        /\ exit_status = 0 <=> \A i \in Tasks : Stage(i) = "Done"

\* C17: extracting the archive tar_directory wrote into an empty directory
\* gives exactly the regular files dir_path held, at the same paths relative
\* to dir_path and with the same bytes.
C17_RepackageRoundTrip ==
    td_pc = "extracted" =>
        td_out = {[path |-> relative_path(e), data |-> e.data] :
                     e \in {f \in td_before : f.kind = "file"}}

\* C18: at every point of a download_file_from_url call, also after it
\* failed, the local file is still there once it existed or was opened, what
\* it holds is a prefix of the remote resource, and it is no longer than the
\* resource.
C18_ValidResumptionPoint ==
    dl_pc # "idle" =>
        /\ (dl_initial.kind = "file" \/ dl_pc \in {"streaming", "closed"}) => dl_file.kind = "file"
        /\ Len(dl_file.data) <= Len(dl_remote)
        /\ dl_file.data = SubSeq(dl_remote, 1, Len(dl_file.data))

\* The stage that follows a stage on the success path.
NextStage(stage) ==
    CASE stage = "Pending" -> "Downloading"
      [] stage = "Downloading" -> "Extracting"
      [] stage = "Extracting" -> "Pruning"
      [] stage = "Pruning" -> "Repackaging"
      [] stage = "Repackaging" -> "Done"
      [] OTHER -> stage

\* C19: a descriptor that names an archive moves, in one step, from a stage
\* to the next stage of Pending, Downloading, Extracting, Pruning,
\* Repackaging, Done, or from a stage that is not terminal to Failed at that
\* stage, or it stays in its stage; once Done or Failed it never changes.
C19_StageOrder ==
    [][\A i \in Tasks :
          endswith_targz(Links(i)) =>
              /\ \/ Stage(i)' = Stage(i)
                 \/ Stage(i)' = NextStage(Stage(i))
                 \/ /\ Stage(i) \notin {"Done", "Failed"}
                    /\ Stage(i)' = "Failed"
                    /\ failed_at'[i] = Stage(i)
              /\ Stage(i) # "Failed" => failed_at[i] = "none"
              /\ Terminal(i) => (pc'[i] = pc[i] /\ failed_at'[i] = failed_at[i])]_vars

\* C19 happens: one descriptor went all the way to Done, one failed while it
\* was Downloading, and one is being repackaged.
C19_Witness ==
    \E i, j, k \in Tasks :
        /\ pc[i] = "done"
        /\ pc[j] = "failed" /\ failed_at[j] = "Downloading"
        /\ Stage(k) = "Repackaging"

ActiveTasks == {i \in Tasks : Active(i)}

\* C20: at most PoolSize descriptors are in an active stage (Downloading,
\* Extracting, Pruning, Repackaging) at any time; a descriptor leaves Pending
\* once and never comes back to it; and a descriptor is taken only when fewer
\* than PoolSize descriptors are active, that is by a worker whose previous
\* descriptor, if any, is terminal; one descriptor is taken per step.
C20_BoundedParallelism ==
    [][/\ Cardinality(ActiveTasks) <= PoolSize
       /\ Cardinality(ActiveTasks') <= PoolSize
       /\ \A i \in Tasks : pc[i] # "pending" => pc'[i] # "pending"
       /\ \A i \in Tasks :
             (pc[i] = "pending" /\ pc'[i] # "pending") =>
                 /\ Cardinality(ActiveTasks) < PoolSize
                 /\ \A j \in Tasks \ {i} : pc'[j] = pc[j]]_vars

\* C20 happens: every worker is busy while a descriptor that was taken
\* earlier is already terminal, so one worker is on its second descriptor.
C20_Witness ==
    /\ Cardinality(ActiveTasks) = PoolSize
    /\ \E i \in Tasks : Terminal(i)
    /\ Len(archive_links) > PoolSize

\* The archive holds every regular file of the directory.
ArchiveComplete ==
    td_archive = {[arcname |-> lstrip_sep(join(td_path, relative_path(e))), data |-> e.data] :
                     e \in {f \in td_before : f.kind = "file"}}

\* C21: tar_directory changes the directory only by removing it on the step
\* after the archive was written in full and closed, and only when
\* remove_directory is set; when writing the archive fails, and when
\* remove_directory is not set, the directory is as it was before the call.
C21_RemoveAfterWrite ==
    [][/\ td_dir' # td_dir =>
             /\ td_pc = "written" /\ td_pc' = "returned"
             /\ td_remove_directory
             /\ ArchiveComplete
             /\ td_dir' = {}
       /\ td_pc' = "raised" => td_dir' = td_before
       /\ (td_pc' \in {"returned", "extracted"} /\ ~td_remove_directory) => td_dir' = td_before
       /\ (td_pc' \in {"returned", "extracted"} /\ td_remove_directory) => td_dir' = {}]_vars

\* C21 happens: writing the archive failed after a file was added, with
\* remove_directory set, and the directory still holds all its files.
C21_Witness ==
    /\ td_pc = "raised"
    /\ td_remove_directory
    /\ td_archive # {}
    /\ td_dir = td_before
    /\ Cardinality(td_dir) >= 2

\* C22: whenever the extraction root of a descriptor exists and its untar has
\* not returned True, the archive file of the descriptor is present; the root
\* is without its archive only after untar went through every member.
C22_PartialExtractionDistinguishable ==
    \A i \in Tasks :
        (fs[unique_dump_dir(Links(i))].kind = "dir" /\ is_successful_untar[i] # "True") =>
            fs[target_loc(Links(i))].kind = "file"

\* tqdm(desc="process archives", ..., position=0)
process_archives_position == 0

\* download_file_from_url(archive_link, target_loc, index + 1): index is the
\* place of the link in the list, counted from 0.
file_number(i) == (i - 1) + 1

\* untar: tqdm(desc="extracting ...", iterable=...) is given no position and
\* takes the first free one of its process; a worker has no other bar open
\* (the download bar was closed), so that is position 0.
extracting_position == 0

\* The slots a descriptor's worker writes progress to at this moment.
download_slots(i) == IF pc[i] \in {"request", "write"} THEN {file_number(i)} ELSE {}

extracting_slots(i) == IF pc[i] = "extract" THEN {extracting_position} ELSE {}

progress_slots(i) == download_slots(i) \cup extracting_slots(i)

\* C23: the slot of a running download is fixed by the descriptor, differs
\* from the slot of every other running download and from slot 0 of the
\* "process archives" bar; and no two workers that run at the same time write
\* progress to the same slot, nor to slot 0.
C23_ProgressSlots ==
    /\ \A i, j \in Tasks :
          i # j => download_slots(i) \cap download_slots(j) = {}
    /\ \A i \in Tasks : process_archives_position \notin download_slots(i)
    /\ \A i, j \in Tasks :
          (i # j /\ Active(i) /\ Active(j)) => progress_slots(i) \cap progress_slots(j) = {}
    /\ \A i \in Tasks : Active(i) => process_archives_position \notin progress_slots(i)

\* C24: the counter of the "process archives" bar counts terminal descriptors
\* only, each at most once, and when the run is over (the main process has
\* ended) it equals the number of descriptors.
C24_CompletedCounter ==
    /\ p_bar <= Cardinality({i \in Tasks : Terminal(i)})
    /\ \A i \in 1..p_bar : Terminal(i)
    /\ (~alive /\ parent # "idle") => p_bar = Len(archive_links)

IsPrefix(a, b) == Len(a) <= Len(b) /\ a = SubSeq(b, 1, Len(a))

\* C25: in every run over the same descriptor, when download_file_from_url
\* is about to send its request, the file at the archive path is absent or a
\* prefix of the remote archive.
C25_RerunDownloadPath ==
    \A i \in Tasks :
        pc[i] = "request" =>
            \/ fs[target_loc(Links(i))].kind = "absent"
            \/ /\ fs[target_loc(Links(i))].kind = "file"
               /\ IsPrefix(fs[target_loc(Links(i))].data, RemoteData(Links(i)))

\* C26: from the request on, and at every chunk, the download bar shows the
\* number of bytes in the local file; it never exceeds the size of the
\* resource, and it equals that size when the call has returned.
C26_ProgressExact ==
    dl_pc \in {"streaming", "closed"} =>
        /\ dl_p_bar = Len(dl_file.data)
        /\ dl_p_bar <= Len(dl_remote)
        /\ dl_pc = "closed" => dl_p_bar = Len(dl_remote)

\* The dumps of the listing whose date is in the range, in listing order.
InRangeDumps ==
    SelectSeq(rt_listing, LAMBDA name : is_between_dates(name, rt_start, rt_end).value)

\* Dump k of tar_dumps had its untar and its restore attempted.
Attempted(k) == rt_untarred[k] # "unset" /\ is_successful_restore[k] # "unset"

\* C27: process_restore handles the in-range dumps one after another; the
\* extracted directory of a dump is removed only by the cleanup of that dump,
\* and only if its restore returned True and remove_untar_files is set; a
\* failed untar or a failed restore of one dump never prevents the following
\* dumps from being processed: the run ends with every in-range dump's untar
\* and restore attempted.
C27_RestoreCleanup ==
    /\ [][\A d \in rt_dirs \ rt_dirs' :
             /\ rt_pc = "cleanup"
             /\ d = untar_dump_name(rt_next)
             /\ is_successful_restore[rt_next] = "True"
             /\ remove_untar_files]_vars
    /\ [](rt_pc \in {"untar", "restore", "cleanup", "returned"} =>
             /\ tar_dumps = InRangeDumps
             /\ \A k \in 1..Len(tar_dumps) :
                   /\ k < rt_next => Attempted(k)
                   /\ k > rt_next => rt_untarred[k] = "unset" /\ is_successful_restore[k] = "unset")
    /\ [](rt_pc = "returned" => \A k \in 1..Len(tar_dumps) : Attempted(k))
    /\ <>(rt_pc = "returned")

\* Two dumps in range and remove_untar_files set: the first one's restore
\* returned False and its directory is kept, the second one was restored and
\* its directory removed.
C27_Witness ==
    /\ rt_pc = "returned"
    /\ remove_untar_files
    /\ Len(tar_dumps) = 2
    /\ is_successful_restore[1] = "False"
    /\ untar_dump_name(1) \in rt_dirs
    /\ rt_untarred[2] = "ok"
    /\ is_successful_restore[2] = "True"
    /\ untar_dump_name(2) \notin rt_dirs

====
